---- MODULE Spec2Model ----
(***************************************************************************)
(* A model of ytd (src/src/ytd/main.py): the URL classifier, the yt-dlp    *)
(* log adapter, the two download operations and the command entry point    *)
(* with its exception-to-exit-code mapping.                                *)
(*                                                                         *)
(* Text is modelled by TLA+ strings, on which TLC evaluates Len, \o,       *)
(* SubSeq, Head and Tail; every Python string method the program uses is   *)
(* an operator computed on the characters. The characters are those of     *)
(* U+0000..U+00FF; text with a character beyond them is not among the      *)
(* inputs, and the operators below say nothing of it.                      *)
(***************************************************************************)
EXTENDS Integers, Sequences, FiniteSets, TLC

VARIABLES
    arg,        \* classifier harness: the URL handed to the pure functions
    res_norm,   \* ensure_scheme(arg)
    res_norm2,  \* ensure_scheme(ensure_scheme(arg))
    res_yt,     \* is_youtube_url(arg)
    res_sv,     \* is_single_video(arg)
    events,     \* log adapter harness: each call made, with the events it emitted
    pc,         \* position of the run
    caller,     \* who invoked the download operation: "main" or "harness"
    url,        \* the URL argument of the run / invocation
    cookies,    \* the --cookies option ('' when not given)
    heap,       \* the nested 'outtmpl' dict objects, by object identity
    base,       \* base_params: the dict get_base_ydl_params returned
    ydl,        \* the YoutubeDL session: open or closed, and its params dict
    calls,      \* every call made to the engine, in order
    stages,     \* the stages main() has entered, in order
    exc,        \* the exception that ended the run / invocation
    exitCode,   \* the process exit code (NoExit while running)
    invs        \* harness: how many invocations have finished, and the last one

urlVars == <<arg, res_norm, res_norm2, res_yt, res_sv>>
logVars == <<events>>
runVars == <<pc, caller, url, cookies, heap, base, ydl, calls, stages, exc, exitCode, invs>>
vars == <<arg, res_norm, res_norm2, res_yt, res_sv, events,
          pc, caller, url, cookies, heap, base, ydl, calls, stages, exc, exitCode, invs>>

-----------------------------------------------------------------------------
(* Python str methods                                                      *)

Min(S) == CHOOSE m \in S : \A n \in S : m <= n

Max(S) == CHOOSE m \in S : \A n \in S : m >= n

\* s[i] (1-based), a one-character string
CharAt(s, i) == SubSeq(s, i, i)

\* str.startswith(p)
StartsWith(s, p) == Len(s) >= Len(p) /\ SubSeq(s, 1, Len(p)) = p

\* str.endswith(p)
EndsWith(s, p) == Len(s) >= Len(p) /\ SubSeq(s, Len(s) - Len(p) + 1, Len(s)) = p

\* str.startswith(tuple)
StartsWithAny(s, ps) == \E p \in ps : StartsWith(s, p)

\* str.find(sub, from): the 1-based index of the first occurrence at or after
\* `from`, 0 when there is none (Python's -1)
Find(s, sub, from) ==
    LET hits == {i \in from..(Len(s) - Len(sub) + 1) : SubSeq(s, i, i + Len(sub) - 1) = sub}
    IN  IF hits = {} THEN 0 ELSE Min(hits)

\* str.rfind(sub)
RFind(s, sub) ==
    LET hits == {i \in 1..(Len(s) - Len(sub) + 1) : SubSeq(s, i, i + Len(sub) - 1) = sub}
    IN  IF hits = {} THEN 0 ELSE Max(hits)

\* str.replace(old, '', 1): the first occurrence of old removed, wherever it is
RemoveFirst(s, old) ==
    LET i == Find(s, old, 1)
    IN  IF i = 0 THEN s
        ELSE SubSeq(s, 1, i - 1) \o SubSeq(s, i + Len(old), Len(s))

\* The characters str.strip() removes (str.isspace), of U+0000..U+00FF:
\* U+0009..U+000D, U+001C..U+001F, U+0020, U+0085, U+00A0
Whitespace == {"\t", "\n", "", "\f", "\r", "", "", "", "", " ", "", " "}

\* str.strip(): leading and trailing whitespace removed
Strip(s) ==
    LET keep == {i \in 1..Len(s) : CharAt(s, i) \notin Whitespace}
    IN  IF keep = {} THEN "" ELSE SubSeq(s, Min(keep), Max(keep))

\* The characters of U+0000..U+00FF that str.lower() changes, and what it makes
\* of each
UpperChars == "ABCDEFGHIJKLMNOPQRSTUVWXYZÀÁÂÃÄÅÆÇÈÉÊËÌÍÎÏÐÑÒÓÔÕÖØÙÚÛÜÝÞ"

LowerChars == "abcdefghijklmnopqrstuvwxyzàáâãäåæçèéêëìíîïðñòóôõöøùúûüýþ"

\* The ASCII letters
AsciiLetters == "ABCDEFGHIJKLMNOPQRSTUVWXYZabcdefghijklmnopqrstuvwxyz"

DigitChars == "0123456789"

LowerChar(c) ==
    LET i == Find(UpperChars, c, 1)
    IN  IF i = 0 THEN c ELSE CharAt(LowerChars, i)

RECURSIVE Lower(_)
\* str.lower()
Lower(s) == IF s = "" THEN "" ELSE LowerChar(Head(s)) \o Lower(Tail(s))

-----------------------------------------------------------------------------
(* urllib.parse.urlparse, as far as the program reads its result: the      *)
(* scheme is split off, then the network location up to the first of       *)
(* "/", "?", "#", then the fragment and the query; what is left is the     *)
(* path. URLs with brackets, ";" parameters or control characters are not  *)
(* among the inputs.                                                       *)

\* c.isascii() and c.isalpha()
IsAlpha(c) == Find(AsciiLetters, c, 1) > 0

IsSchemeChar(c) == IsAlpha(c) \/ Find(DigitChars, c, 1) > 0 \/ c \in {"+", "-", "."}

urlparse(u) ==
    LET i == Find(u, ":", 1)
        hasScheme == /\ i > 1
                     /\ IsAlpha(CharAt(u, 1))
                     /\ \A k \in 1..(i - 1) : IsSchemeChar(CharAt(u, k))
        scheme == IF hasScheme THEN Lower(SubSeq(u, 1, i - 1)) ELSE ""
        r1 == IF hasScheme THEN SubSeq(u, i + 1, Len(u)) ELSE u
        hasNetloc == StartsWith(r1, "//")
        delims == {Find(r1, c, 3) : c \in {"/", "?", "#"}} \ {0}
        delim == IF delims = {} THEN Len(r1) + 1 ELSE Min(delims)
        netloc == IF hasNetloc THEN SubSeq(r1, 3, delim - 1) ELSE ""
        r2 == IF hasNetloc THEN SubSeq(r1, delim, Len(r1)) ELSE r1
        h == Find(r2, "#", 1)
        r3 == IF h = 0 THEN r2 ELSE SubSeq(r2, 1, h - 1)
        q == Find(r3, "?", 1)
        path == IF q = 0 THEN r3 ELSE SubSeq(r3, 1, q - 1)
    IN  [scheme |-> scheme, netloc |-> netloc, path |-> path]

\* ParseResult.hostname: the user-info and the port dropped; None when nothing
\* is left; lower-cased up to the first "%" (what follows is an IPv6 zone,
\* kept as written)
hostname(parsed) ==
    LET at == RFind(parsed.netloc, "@")
        hostinfo == SubSeq(parsed.netloc, at + 1, Len(parsed.netloc))
        colon == Find(hostinfo, ":", 1)
        host == IF colon = 0 THEN hostinfo ELSE SubSeq(hostinfo, 1, colon - 1)
    IN  IF host = "" THEN [isNone |-> TRUE, v |-> ""]
        ELSE [isNone |-> FALSE,
              v |-> IF Find(host, "%", 1) = 0 THEN Lower(host)
                    ELSE Lower(SubSeq(host, 1, Find(host, "%", 1) - 1))
                            \o SubSeq(host, Find(host, "%", 1), Len(host))]

\* `x or ''`
OrEmpty(h) == IF h.isNone \/ h.v = "" THEN "" ELSE h.v

-----------------------------------------------------------------------------
(* URL classifier                                                          *)

SchemePrefixes == {"http://", "https://"}

\* ensure_scheme, were any "<scheme>://" taken for a scheme
ensure_scheme_any(u) == IF Find(u, "://", 1) = 0 THEN "https://" \o u ELSE u

ensure_scheme(u) == IF ~StartsWithAny(u, SchemePrefixes) THEN "https://" \o u ELSE u

valid_domains == {"youtube.com", "youtu.be"}

\* is_youtube_url, were the suffix compared without the dot
is_youtube_url_nodot(u) ==
    LET host == OrEmpty(hostname(urlparse(ensure_scheme(u))))
    IN  \E domain \in valid_domains : host = domain \/ EndsWith(host, domain)

is_youtube_url(u) ==
    LET host == OrEmpty(hostname(urlparse(ensure_scheme(u))))
    IN  \E domain \in valid_domains : host = domain \/ EndsWith(host, "." \o domain)

ShortHosts == {"youtu.be", "www.youtu.be"}

VideoPrefixes == {"/watch", "/shorts/", "/live/"}

PlaylistPrefix == "/playlist"

Returned(b) == [st |-> "return", val |-> b, msg |-> ""]

Raised(m) == [st |-> "raise", val |-> FALSE, msg |-> m]

NotCalled == [st |-> "none", val |-> FALSE, msg |-> ""]

StructureMessage(u) == "Unsupported or invalid YouTube URL structure: \"" \o u \o "\""

\* is_single_video, were the path looked at before the host
is_single_video_pathfirst(u) ==
    LET n == ensure_scheme(u)
        parsed == urlparse(n)
        host == OrEmpty(hostname(parsed))
        path == parsed.path
    IN  IF StartsWithAny(path, VideoPrefixes) THEN Returned(TRUE)
        ELSE IF StartsWith(path, PlaylistPrefix) THEN Returned(FALSE)
        ELSE IF host \in ShortHosts THEN Returned(TRUE)
        ELSE Raised(StructureMessage(n))

is_single_video(u) ==
    LET n == ensure_scheme(u)
        parsed == urlparse(n)
        host == OrEmpty(hostname(parsed))
        path == parsed.path
    IN  IF host \in ShortHosts THEN Returned(TRUE)
        ELSE IF StartsWithAny(path, VideoPrefixes) THEN Returned(TRUE)
        ELSE IF StartsWith(path, PlaylistPrefix) THEN Returned(FALSE)
        ELSE Raised(StructureMessage(n))

-----------------------------------------------------------------------------
(* Idle values of the three groups of variables                            *)

NoExit == -1

NoStr == [st |-> "none", v |-> ""]

StrResult(s) == [st |-> "return", v |-> s]

NoExc == [type |-> "none", origin |-> "none", exit_code |-> 0]

NoParams == [built |-> FALSE, outtmpl |-> 0, cookiefile |-> NoStr]

NoSession == [state |-> "none", params |-> NoParams]

NoInv == [op |-> "none", cookies |-> "", result |-> "none"]

UrlIdle ==
    /\ arg = ""
    /\ res_norm = NoStr
    /\ res_norm2 = NoStr
    /\ res_yt = NotCalled
    /\ res_sv = NotCalled

LogIdle == events = <<>>

RunIdle ==
    /\ pc = "idle"
    /\ caller = "none"
    /\ url = ""
    /\ cookies = ""
    /\ heap = <<>>
    /\ base = NoParams
    /\ ydl = NoSession
    /\ calls = <<>>
    /\ stages = <<>>
    /\ exc = NoExc
    /\ exitCode = NoExit
    /\ invs = [n |-> 0, last |-> NoInv]

-----------------------------------------------------------------------------
(* The classifier's three functions applied to one URL                     *)

InPrefixes == {"", "http://", "https://", "ftp://", "HTTPS://"}

InHosts == {"", "youtube.com", "www.youtube.com", "music.youtube.com", "YouTube.com",
            "youtu.be", "www.youtu.be", "m.youtu.be", "notyoutube.com", "xyoutu.be",
            "youtube.com.evil.org", "user@youtube.com", "youtube.com:443", "example.org",
            "x%.YOUTUBE.COM", "YouTube.com%AB", "É.YouTube.com"}

InPaths == {"", "/", "/watch?v=abc123", "/watchlater", "/shorts/abc123", "/shorts",
            "/live/abc123", "/playlist?list=xyz", "/Playlist", "/some/other/path",
            "?v=abc123", "/abc123#/watch"}

InUrls == {p \o h \o t : p \in InPrefixes, h \in InHosts, t \in InPaths}

InitUrl ==
    /\ arg \in InUrls
    /\ res_norm = NoStr
    /\ res_norm2 = NoStr
    /\ res_yt = NotCalled
    /\ res_sv = NotCalled
    /\ LogIdle
    /\ RunIdle

CallEnsureScheme ==
    /\ res_norm.st = "none"
    /\ res_norm' = StrResult(ensure_scheme(arg))
    /\ UNCHANGED <<arg, res_norm2, res_yt, res_sv, logVars, runVars>>

CallEnsureSchemeAgain ==
    /\ res_norm.st = "return"
    /\ res_norm2.st = "none"
    /\ res_norm2' = StrResult(ensure_scheme(res_norm.v))
    /\ UNCHANGED <<arg, res_norm, res_yt, res_sv, logVars, runVars>>

CallIsYoutubeUrl ==
    /\ res_yt.st = "none"
    /\ res_yt' = Returned(is_youtube_url(arg))
    /\ UNCHANGED <<arg, res_norm, res_norm2, res_sv, logVars, runVars>>

CallIsSingleVideo ==
    /\ res_sv.st = "none"
    /\ res_sv' = is_single_video(arg)
    /\ UNCHANGED <<arg, res_norm, res_norm2, res_yt, logVars, runVars>>

NextUrl ==
    \/ CallEnsureScheme
    \/ CallEnsureSchemeAgain
    \/ CallIsYoutubeUrl
    \/ CallIsSingleVideo

SpecUrl == InitUrl /\ [][NextUrl]_vars

\* The host urlparse extracts from the normalized URL, '' when absent
HostOf(u) == OrEmpty(hostname(urlparse(ensure_scheme(u))))

PathOf(u) == urlparse(ensure_scheme(u)).path

\* A URL that carries a network scheme of any name: "<scheme>://..."
HasAnyScheme(u) ==
    LET i == Find(u, "://", 1)
    IN  /\ i > 1
        /\ IsAlpha(CharAt(u, 1))
        /\ \A k \in 1..(i - 1) : IsSchemeChar(CharAt(u, k))

\* C7 as stated: a URL without a scheme gets "https://" prepended once, a URL
\* with a scheme, whatever the scheme, is returned unchanged, and normalize is
\* idempotent
C7_AnySchemeUnchanged ==
    /\ res_norm.st = "return" =>
        IF HasAnyScheme(arg) THEN res_norm.v = arg
        ELSE res_norm.v = "https://" \o arg
    /\ res_norm2.st = "return" => res_norm2.v = res_norm.v

\* C7 amended: a URL that begins with "http://" or "https://" (lower case) is
\* returned unchanged; every other URL, one with another scheme included,
\* gets "https://" prepended exactly once; normalizing twice equals
\* normalizing once
C7_Normalize ==
    /\ res_norm.st = "return" =>
        /\ (StartsWith(arg, "http://") \/ StartsWith(arg, "https://")) =>
                res_norm.v = arg
        /\ ~(StartsWith(arg, "http://") \/ StartsWith(arg, "https://")) =>
                /\ res_norm.v = "https://" \o arg
                /\ Len(res_norm.v) = Len(arg) + 8
    /\ res_norm2.st = "return" => res_norm2.v = res_norm.v

\* a URL with a scheme other than http/https has been normalized, twice
C7_Witness ==
    /\ StartsWith(arg, "ftp://")
    /\ res_norm.st = "return"
    /\ res_norm2.st = "return"
    /\ res_norm.v = "https://" \o arg

\* The hosts of InHosts that are youtube.com, youtu.be, or a subdomain of one
PlatformHosts == {"youtube.com", "www.youtube.com", "music.youtube.com", "YouTube.com",
                  "youtu.be", "www.youtu.be", "m.youtu.be", "user@youtube.com",
                  "youtube.com:443", "É.YouTube.com"}

\* C8: is_youtube_url is true iff the host of the normalized URL equals
\* youtube.com or youtu.be or ends with "." followed by one of them; a host
\* that only ends with the domain text (notyoutube.com) and an absent host
\* give false
C8_BelongsToPlatform ==
    res_yt.st = "return" =>
        /\ res_yt.val <=>
            \E d \in {"youtube.com", "youtu.be"} :
                \/ HostOf(arg) = d
                \/ /\ Len(HostOf(arg)) > Len(d)
                   /\ SubSeq(HostOf(arg), Len(HostOf(arg)) - Len(d), Len(HostOf(arg))) = "." \o d
        /\ \A p \in {"", "http://", "https://"}, h \in InHosts, t \in InPaths :
                arg = p \o h \o t => (res_yt.val <=> h \in PlatformHosts)
        /\ HostOf(arg) \in {"notyoutube.com", "xyoutu.be", ""} => ~res_yt.val

\* is_youtube_url has rejected a host that ends with the domain text without
\* the dot, and accepted a subdomain
C8_Witness ==
    /\ res_yt.st = "return"
    /\ HostOf(arg) = "notyoutube.com"
    /\ ~res_yt.val

\* C4 as stated: true whenever the host is youtu.be; otherwise decided by the
\* path: true for /watch, /shorts/, /live/, false for /playlist, and
\* InvalidURLStructure carrying the URL for every other path
C4_ShortHostOnly ==
    res_sv.st # "none" =>
        IF HostOf(arg) = "youtu.be" THEN res_sv = Returned(TRUE)
        ELSE IF \E p \in {"/watch", "/shorts/", "/live/"} : StartsWith(PathOf(arg), p)
             THEN res_sv = Returned(TRUE)
        ELSE IF StartsWith(PathOf(arg), "/playlist") THEN res_sv = Returned(FALSE)
        ELSE res_sv.st = "raise" /\ Find(res_sv.msg, ensure_scheme(arg), 1) > 0

\* C4 amended: true whenever the host is youtu.be or www.youtu.be, whatever
\* the path; otherwise decided by the path as stated, the error carrying the
\* normalized URL
C4_IsSingleItem ==
    res_sv.st # "none" =>
        IF HostOf(arg) \in {"youtu.be", "www.youtu.be"} THEN res_sv = Returned(TRUE)
        ELSE IF \E p \in {"/watch", "/shorts/", "/live/"} : StartsWith(PathOf(arg), p)
             THEN res_sv = Returned(TRUE)
        ELSE IF StartsWith(PathOf(arg), "/playlist") THEN res_sv = Returned(FALSE)
        ELSE res_sv.st = "raise" /\ Find(res_sv.msg, ensure_scheme(arg), 1) > 0

\* is_single_video has returned true for www.youtu.be with the playlist path
C4_Witness ==
    /\ res_sv = Returned(TRUE)
    /\ HostOf(arg) = "www.youtu.be"
    /\ StartsWith(PathOf(arg), "/playlist")

-----------------------------------------------------------------------------
(* YtDlpStructlogAdapter: what each of the three callbacks hands to the    *)
(* structlog logger, as the sequence of events of one call                 *)

Event(level, name, detail) == [level |-> level, event |-> name, detail |-> detail]

debug(msg) ==
    IF Strip(msg) = "" THEN <<>>
    ELSE IF StartsWith(msg, "[debug]")
         THEN <<Event("debug", "yt_dlp_debug", Strip(RemoveFirst(msg, "[debug]")))>>
         ELSE <<Event("info", "yt_dlp_info", Strip(msg))>>

warning(msg) ==
    IF Strip(msg) = "" THEN <<>>
    ELSE <<Event("warning", "yt_dlp_warning", Strip(RemoveFirst(msg, "WARNING:")))>>

error(msg) ==
    IF Strip(msg) = "" THEN <<>>
    ELSE <<Event("error", "yt_dlp_error", Strip(RemoveFirst(msg, "ERROR:")))>>

InLines == {"", "   ", " \t\n", "\f", "\f x \f", " ", " WARNING: nbsp",
            "[debug] some detail", "plain info", "  plain info \n",
            " [debug] indented", "[debug]", "[debug] a [debug] b",
            "WARNING: low disk", "WARNING:", "retrying WARNING: low disk",
            "ERROR: no formats", "ERROR: ERROR: twice", "giving up ERROR: no formats"}

MaxCalls == 2

InitLog ==
    /\ events = <<>>
    /\ UrlIdle
    /\ RunIdle

CallDebug ==
    /\ Len(events) < MaxCalls
    /\ \E msg \in InLines :
        events' = Append(events, [chan |-> "debug", msg |-> msg, out |-> debug(msg)])
    /\ UNCHANGED <<urlVars, runVars>>

CallWarning ==
    /\ Len(events) < MaxCalls
    /\ \E msg \in InLines :
        events' = Append(events, [chan |-> "warning", msg |-> msg, out |-> warning(msg)])
    /\ UNCHANGED <<urlVars, runVars>>

CallError ==
    /\ Len(events) < MaxCalls
    /\ \E msg \in InLines :
        events' = Append(events, [chan |-> "error", msg |-> msg, out |-> error(msg)])
    /\ UNCHANGED <<urlVars, runVars>>

NextLog ==
    \/ CallDebug
    \/ CallWarning
    \/ CallError

SpecLog == InitLog /\ [][NextLog]_vars

\* The line without its leading marker when it has one (surrounding whitespace
\* trimmed first), the trimmed line otherwise
WithoutLeading(msg, marker) ==
    IF StartsWith(Strip(msg), marker)
    THEN Strip(SubSeq(Strip(msg), Len(marker) + 1, Len(Strip(msg))))
    ELSE Strip(msg)

\* C10 as stated: a blank line emits nothing; any other line emits exactly
\* one event: on the debug channel debug-level with the marker stripped when
\* the line begins with "[debug]" and info-level with the line otherwise; on
\* the warning / error channel warning- / error-level with a leading
\* "WARNING:" / "ERROR:" removed and the rest of the text preserved
C10_LeadingMarkerOnly ==
    \A i \in 1..Len(events) :
        LET c == events[i]
        IN  IF Strip(c.msg) = "" THEN c.out = <<>>
            ELSE /\ Len(c.out) = 1
                 /\ c.chan = "debug" =>
                        IF StartsWith(c.msg, "[debug]")
                        THEN /\ c.out[1].level = "debug"
                             /\ c.out[1].detail = WithoutLeading(c.msg, "[debug]")
                        ELSE /\ c.out[1].level = "info"
                             /\ c.out[1].detail = Strip(c.msg)
                 /\ c.chan = "warning" =>
                        /\ c.out[1].level = "warning"
                        /\ c.out[1].detail = WithoutLeading(c.msg, "WARNING:")
                 /\ c.chan = "error" =>
                        /\ c.out[1].level = "error"
                        /\ c.out[1].detail = WithoutLeading(c.msg, "ERROR:")

-----------------------------------------------------------------------------
(* Configuration: the dict get_base_ydl_params returns. Of its options the *)
(* operations touch 'outtmpl', a nested dict, and 'cookiefile'. The nested *)
(* dict is an object of its own, held in `heap` under its identity, so     *)
(* that a copy that shares it differs from one that does not.              *)

InitialOuttmpl == [default |-> "", pl_thumbnail |-> ""]

\* get_base_ydl_params: a fresh dict with a fresh nested 'outtmpl'
get_base_ydl_params(h) ==
    [heap |-> Append(h, InitialOuttmpl),
     params |-> [built |-> TRUE, outtmpl |-> Len(h) + 1, cookiefile |-> NoStr]]

\* copy.copy: a new top-level dict whose 'outtmpl' is the same nested object
copy_copy(h, params) == [heap |-> h, params |-> params]

\* copy.deepcopy: a new top-level dict and a new nested 'outtmpl' object
deepcopy(h, params) ==
    [heap |-> Append(h, h[params.outtmpl]),
     params |-> [params EXCEPT !.outtmpl = Len(h) + 1]]

\* if cookies: local_params['cookiefile'] = cookies
set_cookiefile(params, c) ==
    IF c # "" THEN [params EXCEPT !.cookiefile = StrResult(c)] ELSE params

PlaylistTemplate ==
    "%(channel)s - %(playlist_title)s/%(playlist_index)03d - %(title)s.%(ext)s"

SingleTemplate(author) == author \o " - %(title)s.%(ext)s"

-----------------------------------------------------------------------------
(* Extracted metadata: a dict in which each of the four keys is absent,    *)
(* None or a string                                                        *)

Absent == [t |-> "absent", v |-> ""]

PyNone == [t |-> "None", v |-> ""]

Str(s) == [t |-> "str", v |-> s]

InfoKeys == {"channel", "uploader", "creator", "uploader_id"}

EmptyInfo == [k \in InfoKeys |-> Absent]

Infos ==
    {[channel |-> c, uploader |-> u, creator |-> r, uploader_id |-> i] :
        c \in {Absent, PyNone, Str(""), Str("Chan")},
        u \in {Absent, Str(""), Str("@JohnDoe")},
        r \in {Absent, Str("@@x")},
        i \in {Absent, PyNone, Str("@")}}

\* dict.get(key): None when the key is absent
get(info, key) == IF info[key].t = "absent" THEN PyNone ELSE info[key]

\* Python truth of None and of a string
Truthy(x) == x.t = "str" /\ x.v # ""

\* a or b
PyOr(a, b) == IF Truthy(a) THEN a ELSE b

\* str.lstrip('@'): every leading "@" removed
RECURSIVE lstrip_at(_)
lstrip_at(a) == IF StartsWith(a, "@") THEN lstrip_at(Tail(a)) ELSE a

\* the author label, were the "@" removed with lstrip
author_lstrip(info) ==
    lstrip_at(PyOr(get(info, "channel"),
              PyOr(get(info, "uploader"),
              PyOr(get(info, "creator"),
              PyOr(get(info, "uploader_id"), Str("Unknown Author"))))).v)

\* download_single_video, steps 2 and 3: the author label
author_of(info) ==
    LET author == PyOr(get(info, "channel"),
                  PyOr(get(info, "uploader"),
                  PyOr(get(info, "creator"),
                  PyOr(get(info, "uploader_id"), Str("Unknown Author"))))).v
    IN  IF StartsWith(author, "@") THEN SubSeq(author, 2, Len(author)) ELSE author

-----------------------------------------------------------------------------
(* The external engine, seen from the program: extract_info returns a      *)
(* metadata dict or None, or raises; download returns or raises. What it   *)
(* raises is yt_dlp.utils.DownloadError, or an exception of another type.  *)

EngineErrors == {"DownloadError", "ValueError", "Exception"}

Outcome(kind, info, type) == [kind |-> kind, info |-> info, type |-> type]

ExtractOutcomes ==
    {Outcome("info", i, "none") : i \in Infos}
        \cup {Outcome("None", EmptyInfo, "none")}
        \cup {Outcome("raise", EmptyInfo, t) : t \in EngineErrors}

DownloadOutcomes ==
    {Outcome("ok", EmptyInfo, "none")}
        \cup {Outcome("raise", EmptyInfo, t) : t \in EngineErrors}

\* `extract_info(...) or {}`
or_empty_dict(o) == IF o.kind = "info" THEN o.info ELSE EmptyInfo

EngineCall(op, download, o) ==
    [op |-> op, url |-> url, download |-> download, outcome |-> o,
     session |-> ydl.state,
     outtmpl |-> heap[ydl.params.outtmpl].default,
     cookiefile |-> ydl.params.cookiefile]

Exc(type, origin, code) == [type |-> type, origin |-> origin, exit_code |-> code]

-----------------------------------------------------------------------------
(* The exception mapping of the __main__ block                             *)

\* the mapping without its DownloadError clause
ExitCodeOf_nodownload(e) ==
    IF e.type = "none" THEN 0
    ELSE IF e.type = "ClickException" THEN e.exit_code
    ELSE IF e.type = "ValueError" THEN 3
    ELSE 1

ExitCodeOf(e) ==
    IF e.type = "none" THEN 0
    ELSE IF e.type = "ClickException" THEN e.exit_code
    ELSE IF e.type = "ValueError" THEN 3
    ELSE IF e.type = "DownloadError" THEN 2
    ELSE 1

\* `with YoutubeDL(...) as ydl`: the state of the session when the block is
\* left, by return or by exception
\* a session closed by hand after the last call, not by `with`
with_exit_leak(raised) == IF raised THEN "open" ELSE "closed"

with_exit(raised) == "closed"

\* The operation is left with exception e (NoExc: it returns). Its local
\* dict dies with it; control goes back to main, and from there to the
\* __main__ block, or to the harness.
Leave(op, e, h) ==
    /\ exc' = e
    /\ heap' = IF ydl.params.outtmpl # base.outtmpl /\ ydl.params.outtmpl = Len(h)
               THEN SubSeq(h, 1, Len(h) - 1) ELSE h
    /\ ydl' = [state |-> with_exit(e.type # "none"), params |-> NoParams]
    /\ IF caller = "main"
       THEN /\ pc' = "done"
            /\ exitCode' = ExitCodeOf(e)
            /\ UNCHANGED invs
       ELSE /\ pc' = "idle"
            /\ invs' = [n |-> invs.n + 1,
                        last |-> [op |-> op, cookies |-> cookies,
                                  result |-> IF e.type = "none" THEN "ok" ELSE "raise"]]
            /\ UNCHANGED exitCode

-----------------------------------------------------------------------------
(* download_single_video and download_playlist, one action per call into   *)
(* the engine: opening the session, extract_info, download                 *)

SingleEnter ==
    /\ pc = "single_enter"
    /\ LET cp == deepcopy(heap, base)
       IN  /\ heap' = cp.heap
           /\ ydl' = [state |-> "open", params |-> set_cookiefile(cp.params, cookies)]
    /\ pc' = "single_extract"
    /\ UNCHANGED <<urlVars, logVars, caller, url, cookies, base, calls, stages, exc,
                   exitCode, invs>>

\* extract_info without `or {}`: a None result fails at info.get
SingleExtract_noempty ==
    /\ pc = "single_extract"
    /\ \E o \in ExtractOutcomes :
        /\ calls' = Append(calls, EngineCall("extract_info", FALSE, o))
        /\ IF o.kind = "raise"
           THEN /\ Leave("single", Exc(o.type, "engine", 0), heap)
                /\ UNCHANGED <<caller, url, cookies, base, stages>>
           ELSE IF o.kind = "None"
           THEN /\ Leave("single", Exc("Exception", "program", 0), heap)
                /\ UNCHANGED <<caller, url, cookies, base, stages>>
           ELSE /\ heap' = [heap EXCEPT ![ydl.params.outtmpl].default =
                                SingleTemplate(author_of(o.info))]
                /\ pc' = "single_download"
                /\ UNCHANGED <<caller, url, cookies, base, ydl, stages, exc, exitCode, invs>>
    /\ UNCHANGED <<urlVars, logVars>>

SingleExtract ==
    /\ pc = "single_extract"
    /\ \E o \in ExtractOutcomes :
        /\ calls' = Append(calls, EngineCall("extract_info", FALSE, o))
        /\ IF o.kind = "raise"
           THEN /\ Leave("single", Exc(o.type, "engine", 0), heap)
                /\ UNCHANGED <<caller, url, cookies, base, stages>>
           ELSE /\ heap' = [heap EXCEPT ![ydl.params.outtmpl].default =
                                SingleTemplate(author_of(or_empty_dict(o)))]
                /\ pc' = "single_download"
                /\ UNCHANGED <<caller, url, cookies, base, ydl, stages, exc, exitCode, invs>>
    /\ UNCHANGED <<urlVars, logVars>>

SingleDownload ==
    /\ pc = "single_download"
    /\ \E o \in DownloadOutcomes :
        /\ calls' = Append(calls, EngineCall("download", TRUE, o))
        /\ Leave("single", IF o.kind = "raise" THEN Exc(o.type, "engine", 0) ELSE NoExc, heap)
    /\ UNCHANGED <<urlVars, logVars, caller, url, cookies, base, stages>>

PlaylistEnter ==
    /\ pc = "playlist_enter"
    /\ LET cp == deepcopy(heap, base)
       IN  /\ heap' = [cp.heap EXCEPT ![cp.params.outtmpl].default = PlaylistTemplate]
           /\ ydl' = [state |-> "open", params |-> set_cookiefile(cp.params, cookies)]
    /\ pc' = "playlist_download"
    /\ UNCHANGED <<urlVars, logVars, caller, url, cookies, base, calls, stages, exc,
                   exitCode, invs>>

PlaylistDownload ==
    /\ pc = "playlist_download"
    /\ \E o \in DownloadOutcomes :
        /\ calls' = Append(calls, EngineCall("download", TRUE, o))
        /\ Leave("playlist", IF o.kind = "raise" THEN Exc(o.type, "engine", 0) ELSE NoExc, heap)
    /\ UNCHANGED <<urlVars, logVars, caller, url, cookies, base, stages>>

-----------------------------------------------------------------------------
(* The command entry point: the argument parsing of app(), then main()     *)

RunUrls == {"youtube.com/watch?v=XYZ", "https://youtu.be/abc123",
            "https://www.youtube.com/shorts/abc123", "www.youtu.be/playlist?list=ABC",
            "https://www.youtube.com/playlist?list=ABC", "m.youtube.com/playlist",
            "https://www.youtube.com/some/other/path", "youtube.com",
            "https://example.org/watch?v=XYZ", "notyoutube.com/watch?v=XYZ", ""}

RunCookies == {"", "cookies.txt"}

\* The command lines: a URL with or without --cookies, or one click rejects
\* (no URL), which raises click.UsageError, exit_code 2
Argvs ==
    {[usage_error |-> FALSE, url |-> u, cookies |-> c] : u \in RunUrls, c \in RunCookies}
        \cup {[usage_error |-> TRUE, url |-> "", cookies |-> ""]}

UsageExitCode == 2

Init ==
    /\ pc = "parse"
    /\ caller = "main"
    /\ url = ""
    /\ cookies = ""
    /\ heap = <<>>
    /\ base = NoParams
    /\ ydl = NoSession
    /\ calls = <<>>
    /\ stages = <<>>
    /\ exc = NoExc
    /\ exitCode = NoExit
    /\ invs = [n |-> 0, last |-> NoInv]
    /\ UrlIdle
    /\ LogIdle

\* main() raises e before any download operation is entered
Fail(e) ==
    /\ pc' = "done"
    /\ exc' = e
    /\ exitCode' = ExitCodeOf(e)

ParseArgs ==
    /\ pc = "parse"
    /\ \E a \in Argvs :
        IF a.usage_error
        THEN /\ Fail(Exc("ClickException", "cli", UsageExitCode))
             /\ UNCHANGED <<url, cookies, stages>>
        ELSE /\ url' = a.url
             /\ cookies' = a.cookies
             /\ pc' = "validating"
             /\ stages' = <<"validating">>
             /\ UNCHANGED <<exc, exitCode>>
    /\ UNCHANGED <<urlVars, logVars, caller, heap, base, ydl, calls, invs>>

Validate ==
    /\ pc = "validating"
    /\ IF ~is_youtube_url(url)
       THEN /\ Fail(Exc("ValueError", "validation", 0))
            /\ UNCHANGED <<heap, base, stages>>
       ELSE /\ LET b == get_base_ydl_params(heap)
               IN  heap' = b.heap /\ base' = b.params
            /\ pc' = "classifying"
            /\ stages' = Append(stages, "classifying")
            /\ UNCHANGED <<exc, exitCode>>
    /\ UNCHANGED <<urlVars, logVars, caller, url, cookies, ydl, calls, invs>>

\* the dispatch with its branches exchanged
dispatch_inverted(single) == IF single THEN "playlist_enter" ELSE "single_enter"

\* if is_single_video(url): download_single_video(...) else: download_playlist(...)
dispatch(single) == IF single THEN "single_enter" ELSE "playlist_enter"

Classify ==
    /\ pc = "classifying"
    /\ LET r == is_single_video(url)
       IN  IF r.st = "raise"
           THEN /\ Fail(Exc("ValueError", "classification", 0))
                /\ UNCHANGED stages
           ELSE /\ pc' = dispatch(r.val)
                /\ stages' = Append(stages, "downloading")
                /\ UNCHANGED <<exc, exitCode>>
    /\ UNCHANGED <<urlVars, logVars, caller, url, cookies, heap, base, ydl, calls, invs>>

Next ==
    \/ ParseArgs
    \/ Validate
    \/ Classify
    \/ SingleEnter
    \/ SingleExtract
    \/ SingleDownload
    \/ PlaylistEnter
    \/ PlaylistDownload

Spec == Init /\ [][Next]_vars

-----------------------------------------------------------------------------
(* The download operations invoked one after the other on one base         *)
(* configuration                                                           *)

MaxInvocations == 3

OrchUrls == {"https://youtu.be/abc123", "https://www.youtube.com/playlist?list=ABC"}

InitOrch ==
    /\ pc = "idle"
    /\ caller = "harness"
    /\ url = ""
    /\ cookies = ""
    /\ LET b == get_base_ydl_params(<<>>)
       IN  heap = b.heap /\ base = b.params
    /\ ydl = NoSession
    /\ calls = <<>>
    /\ stages = <<>>
    /\ exc = NoExc
    /\ exitCode = NoExit
    /\ invs = [n |-> 0, last |-> NoInv]
    /\ UrlIdle
    /\ LogIdle

Invoke ==
    /\ pc = "idle"
    /\ invs.n < MaxInvocations
    /\ \E op \in {"single_enter", "playlist_enter"}, u \in OrchUrls, c \in RunCookies :
        /\ pc' = op
        /\ url' = u
        /\ cookies' = c
    /\ calls' = <<>>
    /\ exc' = NoExc
    /\ ydl' = NoSession
    /\ UNCHANGED <<urlVars, logVars, caller, heap, base, stages, exitCode, invs>>

NextOrch ==
    \/ Invoke
    \/ SingleEnter
    \/ SingleExtract
    \/ SingleDownload
    \/ PlaylistEnter
    \/ PlaylistDownload

SpecOrch == InitOrch /\ [][NextOrch]_vars

-----------------------------------------------------------------------------
(* Properties of a run of the command                                      *)

\* RunUrls by what the spec says of each: not on the platform, on the
\* platform with an unknown path shape, a single item, a collection
InvalidUrls == {"https://example.org/watch?v=XYZ", "notyoutube.com/watch?v=XYZ", ""}

BadStructureUrls == {"https://www.youtube.com/some/other/path", "youtube.com"}

SingleUrls == {"youtube.com/watch?v=XYZ", "https://youtu.be/abc123",
               "https://www.youtube.com/shorts/abc123", "www.youtu.be/playlist?list=ABC"}

CollectionUrls == {"https://www.youtube.com/playlist?list=ABC", "m.youtube.com/playlist"}

StageOrder == <<"validating", "classifying", "downloading">>

IsPreflight(c) == c.op = "extract_info" /\ c.url = url /\ c.download = FALSE

IsDownload(c) == c.op = "download" /\ c.url = url

\* The stages entered are the first stages of validating, classifying,
\* downloading, and no engine call has been made twice
InOrderNoRepeat ==
    /\ stages = SubSeq(StageOrder, 1, Len(stages))
    /\ \A i, j \in 1..Len(calls) : calls[i].op = calls[j].op => i = j

\* C1 as stated: no engine call and no session when validation or
\* classification fails; a single item makes exactly one pre-flight extract
\* followed by exactly one download; a collection exactly one download and no
\* extract; no call is repeated and the stages are entered in order
C1_ExtractThenDownload ==
    /\ InOrderNoRepeat
    /\ pc = "done" =>
        /\ url \in InvalidUrls \cup BadStructureUrls =>
                calls = <<>> /\ ydl.state = "none"
        /\ url \in SingleUrls =>
                Len(calls) = 2 /\ IsPreflight(calls[1]) /\ IsDownload(calls[2])
        /\ url \in CollectionUrls =>
                Len(calls) = 1 /\ IsDownload(calls[1])

\* C1 amended: as stated, except that a single item whose pre-flight extract
\* raises makes that one extract call and no download; a run that ends in
\* validation has entered validating only, one that ends in classification
\* validating and classifying, every other all three stages
C1_EngineCalls ==
    /\ InOrderNoRepeat
    /\ pc = "done" /\ exc.origin # "cli" =>
        /\ url \in InvalidUrls =>
                calls = <<>> /\ ydl.state = "none" /\ stages = <<"validating">>
        /\ url \in BadStructureUrls =>
                /\ calls = <<>> /\ ydl.state = "none"
                /\ stages = <<"validating", "classifying">>
        /\ url \in SingleUrls =>
                /\ stages = StageOrder
                /\ Len(calls) >= 1 /\ IsPreflight(calls[1])
                /\ IF calls[1].outcome.kind = "raise" THEN Len(calls) = 1
                   ELSE Len(calls) = 2 /\ IsDownload(calls[2])
        /\ url \in CollectionUrls =>
                stages = StageOrder /\ Len(calls) = 1 /\ IsDownload(calls[1])
    /\ pc = "done" /\ exc.origin = "cli" => calls = <<>> /\ ydl.state = "none"

\* a single-item run has ended in its pre-flight extract, without a download
C1_Witness ==
    /\ pc = "done"
    /\ url = "youtube.com/watch?v=XYZ"
    /\ Len(calls) = 1
    /\ calls[1].op = "extract_info"
    /\ calls[1].outcome.kind = "raise"

\* C2 as stated: exit code 0 when the download returns; 3 when validation or
\* classification fails; 2 for every failure raised by the engine, in the
\* pre-flight extract or in download
C2_EngineAlwaysTwo ==
    pc = "done" /\ exc.origin # "cli" =>
        /\ exc.type = "none" => exitCode = 0
        /\ exc.origin \in {"validation", "classification"} => exitCode = 3
        /\ exc.origin = "engine" => exitCode = 2
        /\ exc.type # "none" /\ exc.origin \notin {"validation", "classification", "engine"}
                => exitCode = 1

\* C2 amended: exit code 0 when the download returns; 3 when validation or
\* classification fails; for a failure raised by the engine, 2 when it is the
\* engine's DownloadError, 3 when it is a ValueError, 1 for any other type
C2_ExitCode ==
    pc = "done" /\ exc.origin # "cli" =>
        /\ exc.type = "none" => exitCode = 0
        /\ exc.origin \in {"validation", "classification"} => exitCode = 3
        /\ exc.origin = "engine" =>
                exitCode = CASE exc.type = "DownloadError" -> 2
                             [] exc.type = "ValueError" -> 3
                             [] OTHER -> 1
        /\ exc.type # "none" /\ exc.origin \notin {"validation", "classification", "engine"}
                => exitCode = 1

\* the pre-flight extract has raised DownloadError and the process exits 2
C2_Witness ==
    /\ pc = "done"
    /\ exc.origin = "engine"
    /\ exc.type = "DownloadError"
    /\ Len(calls) = 1
    /\ exitCode = 2

NoData(o) == o.kind = "None" \/ (o.kind = "info" /\ \A k \in InfoKeys : o.info[k].t = "absent")

UnknownTemplate == "Unknown Author - %(title)s.%(ext)s"

\* C5 as stated: when the pre-flight fetch fails or returns no data, the
\* template is "Unknown Author - {title}.{ext}" and download is still invoked
C5_FailureTreatedAsEmpty ==
    pc = "done" /\ Len(calls) >= 1 /\ calls[1].op = "extract_info"
        /\ (calls[1].outcome.kind = "raise" \/ NoData(calls[1].outcome)) =>
            /\ Len(calls) = 2
            /\ IsDownload(calls[2])
            /\ calls[2].outtmpl = UnknownTemplate

\* C5 amended: when the pre-flight fetch returns no data (None or an empty
\* mapping), the template is "Unknown Author - {title}.{ext}" and download is
\* still invoked; when it raises, the error leaves the operation and download
\* is not invoked
C5_NoDataTreatedAsEmpty ==
    /\ pc = "single_download" /\ NoData(calls[1].outcome) =>
            heap[ydl.params.outtmpl].default = UnknownTemplate
    /\ pc = "done" /\ Len(calls) >= 1 /\ calls[1].op = "extract_info" =>
        /\ NoData(calls[1].outcome) =>
            /\ Len(calls) = 2
            /\ IsDownload(calls[2])
            /\ calls[2].outtmpl = UnknownTemplate
        /\ calls[1].outcome.kind = "raise" =>
            /\ Len(calls) = 1
            /\ exc.origin = "engine"
            /\ exc.type = calls[1].outcome.type

\* the pre-flight extract returned None and the download was made
C5_Witness ==
    /\ pc = "done"
    /\ Len(calls) = 2
    /\ calls[1].outcome.kind = "None"
    /\ calls[2].op = "download"
    /\ calls[2].outtmpl = UnknownTemplate

\* C6: a session is open only inside the operation; it is closed when the
\* operation is left, by return or by an error of extract or of download;
\* every engine call is made in an open session
C6_SessionTornDown ==
    /\ ydl.state = "open" <=> pc \in {"single_extract", "single_download", "playlist_download"}
    /\ pc \in {"done", "idle"} /\ "downloading" \in {stages[i] : i \in 1..Len(stages)}
            => ydl.state = "closed"
    /\ \A i \in 1..Len(calls) : calls[i].session = "open"

\* the pre-flight extract raised and the session is closed
C6_Witness ==
    /\ pc = "done"
    /\ Len(calls) = 1
    /\ calls[1].op = "extract_info"
    /\ calls[1].outcome.kind = "raise"
    /\ calls[1].session = "open"
    /\ ydl.state = "closed"

FieldOrder == <<"channel", "uploader", "creator", "uploader_id">>

\* The label the spec derives: the first non-empty of the four fields, else
\* "Unknown Author", less one leading "@"
ExpectedLabel(info) ==
    LET nonempty == {i \in 1..4 : info[FieldOrder[i]].t = "str" /\ info[FieldOrder[i]].v # ""}
        raw == IF nonempty = {} THEN "Unknown Author"
               ELSE info[FieldOrder[Min(nonempty)]].v
    IN  IF Len(raw) >= 1 /\ Head(raw) = "@" THEN Tail(raw) ELSE raw

\* C9: the author label is the first non-empty of channel, uploader, creator,
\* uploader_id, else "Unknown Author", with one leading "@" removed, and the
\* template in effect at download is "<label> - %(title)s.%(ext)s"
C9_AuthorTemplate ==
    /\ pc = "single_download" /\ calls[1].outcome.kind = "info" =>
            heap[ydl.params.outtmpl].default =
                ExpectedLabel(calls[1].outcome.info) \o " - %(title)s.%(ext)s"
    /\ Len(calls) = 2 /\ calls[1].outcome.kind = "info" =>
            /\ calls[2].op = "download"
            /\ calls[2].outtmpl = ExpectedLabel(calls[1].outcome.info) \o " - %(title)s.%(ext)s"

\* metadata {channel: "", uploader: "@JohnDoe"} gave the template "JohnDoe - ..."
C9_Witness ==
    /\ Len(calls) = 2
    /\ calls[1].outcome.kind = "info"
    /\ calls[1].outcome.info.channel = Str("")
    /\ calls[1].outcome.info.uploader = Str("@JohnDoe")
    /\ calls[2].outtmpl = "JohnDoe - %(title)s.%(ext)s"

-----------------------------------------------------------------------------
(* Properties of a sequence of invocations on one base configuration       *)

\* C3: the base configuration keeps the builder's nested output templates and
\* gets no credential-file entry, whatever the invocations do; and each
\* invocation's copy starts from the base values: its template is the
\* builder's (single item) or the collection template, its credential file
\* this invocation's own or none
C3_BaseUnchanged ==
    /\ base.built
    /\ heap[base.outtmpl] = [default |-> "", pl_thumbnail |-> ""]
    /\ base.cookiefile.st = "none"
    /\ pc \in {"single_extract", "playlist_download"} =>
        /\ ydl.params.outtmpl # base.outtmpl
        /\ heap[ydl.params.outtmpl].pl_thumbnail = ""
        /\ heap[ydl.params.outtmpl].default =
                IF pc = "single_extract" THEN ""
                ELSE "%(channel)s - %(playlist_title)s/%(playlist_index)03d - %(title)s.%(ext)s"
        /\ ydl.params.cookiefile =
                IF cookies = "" THEN [st |-> "none", v |-> ""]
                ELSE [st |-> "return", v |-> cookies]

\* a single-item invocation without credentials has started after a
\* collection invocation with credentials has finished
C3_Witness ==
    /\ invs.n >= 2
    /\ invs.last.op = "playlist"
    /\ invs.last.cookies = "cookies.txt"
    /\ pc = "single_extract"
    /\ cookies = ""

====
